---- MODULE Spec2Model ----
(***************************************************************************)
(* Volume lifecycle operations of the NetApp CVS (GCP) provider client:    *)
(* createVolume, deleteVolume, updateVolume and                            *)
(* getVolumeByNameOrCreationToken, with the backend (CallAPIMethod) as a   *)
(* nondeterministic environment; Request.BuildHTTPReq of the restapi       *)
(* package; and the operations run concurrently on one Client.             *)
(***************************************************************************)
EXTENDS Integers, Sequences, FiniteSets, TLC

VARIABLES
    op,                   \* the lifecycle operation being executed
    pc,                   \* position of the operation in its code
    request,              \* the caller's volumeRequest (createVolume gets a pointer)
    callerRequest,        \* the caller's volumeRequest as it was at entry
    Project,              \* Client.Project
    params,               \* createVolume: params := structs.Map(request)
    baseURL,              \* the path of the operation's request
    statusCode,           \* statusCode of the last CallAPIMethod of the operation
    response,             \* response body of the last CallAPIMethod
    callErr,              \* err of the last CallAPIMethod
    responseError,        \* responseError (apiResponseChecker of the last response)
    responseErrorContent, \* envelope decoded from the first error response
    retries,              \* loop counter of the retry loop being executed
    result,               \* returned value
    err,                  \* returned error
    sent,                 \* outgoing requests, in order
    sleeps,               \* number of time.Sleep calls made
    sleeping,             \* seconds of the time.Sleep in progress, 0 when none
    firstResponse,        \* first response to the operation's POST / DELETE
    allKind,              \* common class of all POST / DELETE responses so far
    prevAllKind,          \* allKind before the last response
    listing,              \* the regional list the backend holds
    build,                \* a BuildHTTPReq call: its arguments and what it returned
    procs                 \* concurrent operations: the locals of each goroutine

vars == <<op, pc, request, callerRequest, Project, params, baseURL, statusCode,
          response, callErr, responseError, responseErrorContent, retries,
          result, err, sent, sleeps, sleeping, firstResponse, allKind,
          prevAllKind, listing, build, procs>>

-----------------------------------------------------------------------------
(* Literals and retry constants                                            *)

contextDeadlineExceededErrorMessage ==
    "Post http://cloud-volumes-service.sde.svc.cluster.local/v2/Volumes: context deadline exceeded"

spawnJobCreationErrorMessage ==
    "Error creating volume - Cannot spawn additional jobs. Please wait for the ongoing jobs to finish and try again"

spawnJobDeletionErrorMessage ==
    "Error deleting volume - Cannot spawn additional jobs. Please wait for the ongoing jobs to finish and try again"

spawnJobCreationRetriesShort == 10 - 1

spawnJobCreationRetries == 10

contextDeadlineRetries == 5

spawnJobDeletionRetries == 10

\* time.Sleep(time.Duration(nextRandomInt(30, 50)) * time.Second), create
spawnJobCreationSleepMin == 30

spawnJobCreationSleepMax == 50

\* time.Sleep(time.Duration(nextRandomInt(5, 10)) * time.Second)
contextDeadlineSleepMin == 5

contextDeadlineSleepMaxAsSpawnJob == 10 + 40

contextDeadlineSleepMax == 10

\* time.Sleep(time.Duration(nextRandomInt(30, 50)) * time.Second), delete
spawnJobDeletionSleepMin == 30

spawnJobDeletionSleepMax == 50

-----------------------------------------------------------------------------
(* Bounds of the model                                                     *)

MaxList == 3

-----------------------------------------------------------------------------
(* Values                                                                  *)

NoErr == [kind |-> "nil"]

TransportErr == [kind |-> "call", text |-> <<"transport">>]

CredentialErr == [kind |-> "call", text |-> <<"credential">>]

JsonErr == [kind |-> "json"]

NoBody == [json |-> FALSE, text |-> <<>>]

NoContent == [Code |-> 0, Message |-> ""]

\* createVolumeResult{}
ZeroCreateVolumeResult == [VolID |-> "", Code |-> 0, Message |-> ""]

\* volumeResult{}
ZeroVolumeResult == [Name |-> "", CreationToken |-> "", VolumeID |-> ""]

NoParams == [k \in {} |-> ""]

NoURL == <<>>

Statuses == {200, 400, 500}

Codes == {0, 200, 404, 500}

Messages == {"", "other", spawnJobCreationErrorMessage,
             spawnJobDeletionErrorMessage, contextDeadlineExceededErrorMessage}

\* a body that is a JSON object: its "code", its "message", and its
\* "response" ("v1": a well-formed job entry with that volumeId, "bad": a
\* value of the wrong JSON type)
JsonBodies == [json : {TRUE}, code : Codes, message : Messages, result : {"v1", "bad"}]

\* bodies that are not a JSON object
RawBodies == {[json |-> FALSE, text |-> <<"<", "h", ">">>],
              [json |-> FALSE, text |-> <<"9", "%", "b">>],
              [json |-> FALSE, text |-> <<"%", "%", "%">>]}

Bodies == JsonBodies \cup RawBodies

\* what CallAPIMethod can return
CallOutcomes ==
    [err : {NoErr}, status : Statuses, body : Bodies]
    \cup [err : {TransportErr, CredentialErr}, status : {0}, body : {NoBody}]

\* what the token-mint call can return: a volumeResult body carrying a token
\* (possibly none), an error status, a body that is not JSON, a call error
MintOutcomes ==
    [err : {NoErr}, status : {200}, body : {[json |-> TRUE, token |-> "m1"],
                                             [json |-> TRUE, token |-> ""],
                                             [json |-> FALSE, text |-> <<"<", "h", ">">>]}]
    \cup [err : {NoErr}, status : {500}, body : {[json |-> TRUE, token |-> "m1"]}]
    \cup [err : {TransportErr, CredentialErr}, status : {0}, body : {NoBody}]

-----------------------------------------------------------------------------
(* Helpers of the operations                                               *)

\* if statusCode is outside the success range, an error carrying the status
\* and the body; otherwise nil
apiResponseChecker(sc, body) ==
    IF sc >= 300 \/ sc < 200
    THEN [kind |-> "api", status |-> sc, body |-> body]
    ELSE NoErr

\* json.Unmarshal(response, &apiErrorResponse) succeeds
DecodesAsEnvelope(body) == body.json

apiErrorResponseOf(body) == [Code |-> body.code, Message |-> body.message]

\* json.Unmarshal(response, &createVolumeResult) succeeds
DecodesAsCreateResult(body) == body.json /\ body.result # "bad"

createVolumeResultOf(body) ==
    [VolID |-> body.result, Code |-> body.code, Message |-> body.message]

\* bytes.NewBuffer(response).String()
Text(body) ==
    IF body.json
    THEN <<"{", ToString(body.code), body.message, body.result, "}">>
    ELSE body.text

\* fmt.Sprintf(format) with no operands: "%%" prints "%", a "%" followed by
\* a verb prints "%!verb(MISSING)", a final "%" prints "%!(NOVERB)"
RECURSIVE Sprintf(_)
Sprintf(format) ==
    IF format = <<>> THEN <<>>
    ELSE IF Head(format) # "%" THEN <<Head(format)>> \o Sprintf(Tail(format))
    ELSE IF Len(format) = 1 THEN <<"%", "!", "(NOVERB)">>
    ELSE IF format[2] = "%" THEN <<"%">> \o Sprintf(Tail(Tail(format)))
    ELSE <<"%", "!", format[2], "(MISSING)">> \o Sprintf(Tail(Tail(format)))

\* fmt.Errorf(responseContent)
Errorf(format) == [kind |-> "fmt", text |-> Sprintf(format)]

\* the values nextRandomInt(min, max) can return
nextRandomInt(min, max) == min..max

\* `if err != nil` after CallAPIMethod
CallSucceededAlways(out) == FALSE

CallFailed(out) == out.err.kind # "nil"

\* structs tags of volumeRequest: the key of each field, and omitempty
StructsKey ==
    [Name |-> "name", Region |-> "region", CreationToken |-> "creationToken",
     Network |-> "network", VolumeID |-> "volumeId",
     SharedVpcProjectNumber |-> "SharedVpcProjectNumber"]

\* volumeRequest{}; a network reference is the sequence of its path segments
ZeroVolumeRequest ==
    [Name |-> "", Region |-> "", CreationToken |-> "", Network |-> <<>>,
     VolumeID |-> "", SharedVpcProjectNumber |-> ""]

OmitEmpty == {"Name", "Region", "CreationToken", "Network", "VolumeID"}

\* structs.Map(request)
structsMap(r) ==
    LET kept == {f \in DOMAIN r : ~(f \in OmitEmpty /\ r[f] = ZeroVolumeRequest[f])}
    IN  [k \in {StructsKey[f] : f \in kept} |->
            r[CHOOSE f \in kept : StructsKey[f] = k]]

\* the class of a response in the terms of the Response Classifier
Classify(out) ==
    IF out.err.kind # "nil" THEN "callError"
    ELSE IF ~(out.status >= 300 \/ out.status < 200) THEN "success"
    ELSE IF ~out.body.json THEN "fatal"
    ELSE IF out.body.code # 500 THEN "fatal"
    ELSE IF out.body.message = spawnJobCreationErrorMessage THEN "createExhaustion"
    ELSE IF out.body.message = contextDeadlineExceededErrorMessage THEN "deadline"
    ELSE IF out.body.message = spawnJobDeletionErrorMessage THEN "deleteExhaustion"
    ELSE "fatal"

TransientKinds == {"createExhaustion", "deadline", "deleteExhaustion"}

Merge(old, k) ==
    IF old = "none" \/ old = k THEN k
    ELSE IF old \in TransientKinds \cup {"mixedTransient"} /\ k \in TransientKinds
    THEN "mixedTransient"
    ELSE "mixed"

\* the bookkeeping of one CallAPIMethod of a create or a delete
Observe(out) ==
    /\ statusCode' = out.status
    /\ response' = out.body
    /\ callErr' = out.err
    /\ firstResponse' = IF firstResponse.seen THEN firstResponse
                        ELSE [seen |-> TRUE, status |-> out.status, body |-> out.body]
    /\ prevAllKind' = allKind
    /\ allKind' = Merge(allKind, Classify(out))

Return(res, e) ==
    /\ pc' = "done"
    /\ result' = res
    /\ err' = e

-----------------------------------------------------------------------------
(* createVolume                                                            *)

\* `if request.CreationToken == ""`
NeedsMintAlways(r) == TRUE

NeedsMint(r) == r.CreationToken = ""

\* createVolumeCreationToken, called from createVolume
CreateMint ==
    /\ op = "create" /\ pc = "start"
    /\ NeedsMint(request)
    /\ \E out \in MintOutcomes :
        /\ sent' = Append(sent, [method |-> "GET",
                                 path |-> <<request.Region, "VolumeCreationToken">>,
                                 params |-> structsMap(request)])
        /\ callErr' = out.err
        /\ IF CallFailed(out)
           THEN Return(ZeroCreateVolumeResult, out.err) /\ UNCHANGED request
           ELSE IF apiResponseChecker(out.status, out.body).kind # "nil"
           THEN /\ Return(ZeroCreateVolumeResult, apiResponseChecker(out.status, out.body))
                /\ UNCHANGED request
           ELSE IF ~out.body.json
           THEN Return(ZeroCreateVolumeResult, JsonErr) /\ UNCHANGED request
           ELSE /\ request' = [request EXCEPT !.CreationToken = out.body.token]
                /\ pc' = "minted"
                /\ UNCHANGED <<result, err>>
    /\ UNCHANGED <<sleeping, build, procs, op, callerRequest, Project, params, baseURL, statusCode, response,
                   responseError, responseErrorContent, retries, sleeps,
                   firstResponse, allKind, prevAllKind, listing>>

\* projectID of createVolume
projectIDOn(r, clientProject) ==
    IF r.SharedVpcProjectNumber # "" THEN r.SharedVpcProjectNumber ELSE clientProject

projectID(r) == projectIDOn(r, Project)

\* fmt.Sprintf("projects/%s/global/networks/%s", projectID, request.Network)
networkRef(p, n) == <<"projects", p, "global", "networks">> \o n

\* the final decoding of createVolume
createFinal(body) ==
    IF DecodesAsCreateResult(body)
    THEN [pc |-> "done", result |-> createVolumeResultOf(body), err |-> NoErr]
    ELSE [pc |-> "done", result |-> ZeroCreateVolumeResult, err |-> JsonErr]

createFail(e) == [pc |-> "done", result |-> ZeroCreateVolumeResult, err |-> e]

\* `if responseErrorContent.Code >= 300 || responseErrorContent.Code < 200`
createTail(content, respErr, body) ==
    IF content.Code >= 300 \/ content.Code < 200
    THEN createFail(respErr)
    ELSE createFinal(body)

\* createVolume from the first response up to the choice of a retry loop
createFirst(out) ==
    LET re == apiResponseChecker(out.status, out.body)
        content == apiErrorResponseOf(out.body)
    IN  IF CallFailed(out) THEN createFail(out.err)
        ELSE IF re.kind = "nil" THEN createFinal(out.body)
        ELSE IF ~DecodesAsEnvelope(out.body) THEN createFail(Errorf(Text(out.body)))
        ELSE IF content.Code = 500
        THEN IF content.Message = spawnJobCreationErrorMessage
             THEN [pc |-> "spawnLoop", retries |-> spawnJobCreationRetries]
             ELSE IF content.Message = contextDeadlineExceededErrorMessage
             THEN [pc |-> "deadlineLoop", retries |-> contextDeadlineRetries]
             ELSE createFail(re)
        ELSE createTail(content, re, out.body)

\* the effect of a step of createVolume that ends in decision d
CreateApply(d) ==
    /\ pc' = d.pc
    /\ IF d.pc = "done"
       THEN result' = d.result /\ err' = d.err /\ UNCHANGED retries
       ELSE retries' = d.retries /\ UNCHANGED <<result, err>>

CreateFirstPost ==
    /\ op = "create"
    /\ pc = "minted" \/ (pc = "start" /\ ~NeedsMint(request))
    /\ \E out \in CallOutcomes :
        LET req1 == [request EXCEPT
                       !.Network = networkRef(projectID(request), request.Network)]
            p == structsMap(req1)
            url == <<req1.Region, "Volumes">>
        IN  /\ request' = req1
            /\ params' = p
            /\ baseURL' = url
            /\ sent' = Append(sent, [method |-> "POST", path |-> url, params |-> p])
            /\ Observe(out)
            /\ responseError' = IF CallFailed(out) THEN NoErr
                                ELSE apiResponseChecker(out.status, out.body)
            /\ responseErrorContent' =
                  IF ~CallFailed(out) /\ DecodesAsEnvelope(out.body)
                     /\ apiResponseChecker(out.status, out.body).kind # "nil"
                  THEN apiErrorResponseOf(out.body) ELSE NoContent
            /\ CreateApply(createFirst(out))
    /\ UNCHANGED <<sleeping, build, procs, op, callerRequest, Project, sleeps, listing>>

\* `if spawnJobResponseErrorContent.Code == 0`
IsLoopSuccessOn200(content) == content.Code = 200

IsLoopSuccess(content) == content.Code = 0

\* `responseError = apiResponseChecker(statusCode, response, ...)` in a loop
loopResponseErrorKept(old, sc, body) == old

loopResponseError(old, sc, body) == apiResponseChecker(sc, body)

\* `retries--`
retriesKept(n) == n

retriesDecremented(n) == n - 1

\* the loop a retry call belongs to
LoopOf == [spawnCall |-> "spawnLoop", deadlineCall |-> "deadlineLoop",
           deleteCall |-> "deleteLoop"]

\* one iteration of a retry loop of createVolume, after the sleep and the call
createLoopAt(call, out, n, respErr) ==
    LET content == apiErrorResponseOf(out.body)
    IN  IF CallFailed(out) THEN createFail(out.err)
        ELSE IF ~DecodesAsEnvelope(out.body) THEN createFail(Errorf(Text(out.body)))
        ELSE IF IsLoopSuccess(content)
        THEN IF DecodesAsCreateResult(out.body)
             THEN [pc |-> "done", result |-> createVolumeResultOf(out.body), err |-> NoErr]
             ELSE createFail(Errorf(Text(out.body)))
        ELSE IF content.Code # 500 THEN createFail(respErr)
        ELSE [pc |-> LoopOf[call], retries |-> retriesDecremented(n)]

createLoop(out, n, respErr) == createLoopAt(pc, out, n, respErr)

\* `for retries > 0 {` is entered and time.Sleep is called
Sleep(o, loop, slept, min, max) ==
    /\ op = o /\ pc = loop
    /\ retries > 0
    /\ \E d \in nextRandomInt(min, max) : sleeping' = d
    /\ sleeps' = sleeps + 1
    /\ pc' = slept
    /\ UNCHANGED <<build, procs, op, request, callerRequest, Project, params, baseURL, statusCode,
                   response, callErr, responseError, responseErrorContent, retries,
                   result, err, sent, firstResponse, allKind, prevAllKind, listing>>

\* time.Sleep returns and CallAPIMethod sends the request of the retry
Send(o, slept, call, method, p) ==
    /\ op = o /\ pc = slept
    /\ sleeping' = 0
    /\ sent' = Append(sent, [method |-> method, path |-> baseURL, params |-> p])
    /\ pc' = call
    /\ UNCHANGED <<build, procs, op, request, callerRequest, Project, params, baseURL, statusCode,
                   response, callErr, responseError, responseErrorContent, retries,
                   result, err, sleeps, firstResponse, allKind, prevAllKind, listing>>

\* CallAPIMethod of a retry of createVolume returns, and the rest of the
\* iteration
CreateRetry(call) ==
    /\ op = "create" /\ pc = call
    /\ \E out \in CallOutcomes :
        LET re == IF CallFailed(out) THEN responseError
                  ELSE loopResponseError(responseError, out.status, out.body)
        IN  /\ Observe(out)
            /\ responseError' = re
            /\ CreateApply(createLoop(out, retries, re))
    /\ UNCHANGED <<sleeping, build, procs, op, request, callerRequest, Project, params, baseURL,
                   responseErrorContent, sent, sleeps, listing>>

\* the loop over spawnJobCreationErrorMessage
CreateSpawnSleep ==
    Sleep("create", "spawnLoop", "spawnSleep",
          spawnJobCreationSleepMin, spawnJobCreationSleepMax)

CreateSpawnSend == Send("create", "spawnSleep", "spawnCall", "POST", params)

CreateSpawnRetry == CreateRetry("spawnCall")

\* the loop over contextDeadlineExceededErrorMessage
CreateDeadlineSleep ==
    Sleep("create", "deadlineLoop", "deadlineSleep",
          contextDeadlineSleepMin, contextDeadlineSleepMax)

CreateDeadlineSend == Send("create", "deadlineSleep", "deadlineCall", "POST", params)

CreateDeadlineRetry == CreateRetry("deadlineCall")

\* `for retries > 0` is left with retries = 0
CreateLoopExit ==
    /\ op = "create" /\ pc \in {"spawnLoop", "deadlineLoop"}
    /\ retries = 0
    /\ CreateApply(createTail(responseErrorContent, responseError, response))
    /\ UNCHANGED <<sleeping, build, procs, op, request, callerRequest, Project, params, baseURL, statusCode,
                   response, callErr, responseError, responseErrorContent,
                   sent, sleeps, firstResponse, allKind, prevAllKind, listing>>

-----------------------------------------------------------------------------
(* deleteVolume                                                            *)

deleteReturn(e) == [pc |-> "done", err |-> e]

\* the final decoding of deleteVolume
deleteFinal(body) ==
    IF DecodesAsEnvelope(body) THEN deleteReturn(NoErr)
    ELSE deleteReturn(Errorf(Text(body)))

\* `if responseErrorContent.Code >= 300 || responseErrorContent.Code < 200`
deleteTail(content, respErr, body) ==
    IF content.Code >= 300 \/ content.Code < 200
    THEN deleteReturn(respErr)
    ELSE deleteFinal(body)

\* `if responseErrorContent.Message == spawnJobDeletionErrorMessage`
isSpawnJobAny(message) ==
    message \in {spawnJobDeletionErrorMessage, spawnJobCreationErrorMessage}

isSpawnJobDeletion(message) == message = spawnJobDeletionErrorMessage

\* deleteVolume from the first response up to the entry of the retry loop
deleteFirst(out) ==
    LET re == apiResponseChecker(out.status, out.body)
        content == apiErrorResponseOf(out.body)
    IN  IF CallFailed(out) THEN deleteReturn(out.err)
        ELSE IF re.kind = "nil" THEN deleteFinal(out.body)
        ELSE IF ~DecodesAsEnvelope(out.body) THEN deleteReturn(Errorf(Text(out.body)))
        ELSE IF content.Code = 500
        THEN IF isSpawnJobDeletion(content.Message)
             THEN [pc |-> "deleteLoop", retries |-> spawnJobDeletionRetries]
             ELSE deleteReturn(re)
        ELSE deleteTail(content, re, out.body)

\* the effect of a step of deleteVolume that ends in decision d
DeleteApply(d) ==
    /\ pc' = d.pc
    /\ IF d.pc = "done"
       THEN err' = d.err /\ UNCHANGED retries
       ELSE retries' = d.retries /\ UNCHANGED err
    /\ UNCHANGED result

DeleteFirst ==
    /\ op = "delete" /\ pc = "start"
    /\ \E out \in CallOutcomes :
        LET url == <<request.Region, "Volumes", request.VolumeID>>
        IN  /\ baseURL' = url
            /\ sent' = Append(sent, [method |-> "DELETE", path |-> url,
                                     params |-> NoParams])
            /\ Observe(out)
            /\ responseError' = IF CallFailed(out) THEN NoErr
                                ELSE apiResponseChecker(out.status, out.body)
            /\ responseErrorContent' =
                  IF ~CallFailed(out) /\ DecodesAsEnvelope(out.body)
                     /\ apiResponseChecker(out.status, out.body).kind # "nil"
                  THEN apiErrorResponseOf(out.body) ELSE NoContent
            /\ DeleteApply(deleteFirst(out))
    /\ UNCHANGED <<sleeping, build, procs, op, request, callerRequest, Project, params, sleeps, listing>>

\* one iteration of the retry loop of deleteVolume, after the sleep and the call
deleteLoop(out, n, respErr) ==
    LET content == apiErrorResponseOf(out.body)
    IN  IF CallFailed(out) THEN deleteReturn(out.err)
        ELSE IF ~DecodesAsEnvelope(out.body) THEN deleteReturn(Errorf(Text(out.body)))
        ELSE IF IsLoopSuccess(content)
        THEN IF DecodesAsCreateResult(out.body)
             THEN deleteReturn(NoErr)
             ELSE deleteReturn(Errorf(Text(out.body)))
        ELSE IF content.Code # 500 THEN deleteReturn(respErr)
        ELSE [pc |-> "deleteLoop", retries |-> retriesDecremented(n)]

DeleteSleep ==
    Sleep("delete", "deleteLoop", "deleteSleep",
          spawnJobDeletionSleepMin, spawnJobDeletionSleepMax)

DeleteSend == Send("delete", "deleteSleep", "deleteCall", "DELETE", NoParams)

\* CallAPIMethod of a retry of deleteVolume returns, and the rest of the
\* iteration
DeleteRetry ==
    /\ op = "delete" /\ pc = "deleteCall"
    /\ \E out \in CallOutcomes :
        LET re == IF CallFailed(out) THEN responseError
                  ELSE loopResponseError(responseError, out.status, out.body)
        IN  /\ Observe(out)
            /\ responseError' = re
            /\ DeleteApply(deleteLoop(out, retries, re))
    /\ UNCHANGED <<sleeping, build, procs, op, request, callerRequest, Project, params, baseURL,
                   responseErrorContent, sent, sleeps, listing>>

\* `for retries > 0` is left with retries = 0
DeleteLoopExit ==
    /\ op = "delete" /\ pc = "deleteLoop"
    /\ retries = 0
    /\ DeleteApply(deleteTail(responseErrorContent, responseError, response))
    /\ UNCHANGED <<sleeping, build, procs, op, request, callerRequest, Project, params, baseURL, statusCode,
                   response, callErr, responseError, responseErrorContent,
                   sent, sleeps, firstResponse, allKind, prevAllKind, listing>>

-----------------------------------------------------------------------------
(* getVolumeByNameOrCreationToken                                          *)

ListedVolumes ==
    [Name : {"vol-a", "vol-b"}, CreationToken : {"t1", "t2"}, VolumeID : {"i1", "i2"}]

Listings == UNION {[1..k -> ListedVolumes] : k \in 0..MaxList}

\* what the list call can return: a list, an error status, a body that is
\* not a JSON array, a call error
ListOutcomes ==
    [err : {NoErr}, status : {200}, json : {TRUE}, list : Listings]
    \cup [err : {NoErr}, status : {200, 500}, json : {FALSE}, list : {<<>>}]
    \cup [err : {NoErr}, status : {500}, json : {TRUE}, list : {<<>>}]
    \cup [err : {TransportErr, CredentialErr}, status : {0}, json : {FALSE}, list : {<<>>}]

LookupErr(text, value) == [kind |-> "lookup", text |-> text, value |-> value]

lookupFail(e) == [result |-> ZeroVolumeResult, err |-> e]

\* `if count > 1`
MoreThanTwo(count) == count > 2

MoreThanOne(count) == count > 1

\* the statements after the loop over the listed volumes
lookupAfterLoop(volume, count, resultVolume) ==
    IF volume.CreationToken # ""
    THEN lookupFail(LookupErr("Given CreationToken does not exist", volume.CreationToken))
    ELSE IF MoreThanOne(count)
    THEN lookupFail(LookupErr("Found more than one volume", volume.Name))
    ELSE IF count = 0
    THEN lookupFail(LookupErr("No volume found for", volume.Name))
    ELSE [result |-> resultVolume, err |-> NoErr]

\* `else if volume.Name != "" && eachVolume.Name != volume.Name`
nameNeverDisagrees(volume, eachVolume) == FALSE

nameDisagrees(volume, eachVolume) ==
    volume.Name # "" /\ eachVolume.Name # volume.Name

\* the loop over the listed volumes, from element i on
RECURSIVE lookupScan(_, _, _, _, _)
lookupScan(list, i, volume, count, resultVolume) ==
    IF i > Len(list) THEN lookupAfterLoop(volume, count, resultVolume)
    ELSE LET eachVolume == list[i] IN
        IF volume.CreationToken # "" /\ eachVolume.CreationToken = volume.CreationToken
        THEN IF volume.Name # "" /\ eachVolume.Name = volume.Name
             THEN [result |-> eachVolume, err |-> NoErr]
             ELSE IF nameDisagrees(volume, eachVolume)
             THEN lookupFail(LookupErr(
                      "Given CreationToken does not match with given volume name",
                      volume.Name))
             ELSE [result |-> eachVolume, err |-> NoErr]
        ELSE IF volume.CreationToken = "" /\ volume.Name # ""
                /\ eachVolume.Name = volume.Name
        THEN lookupScan(list, i + 1, volume, count + 1, eachVolume)
        ELSE lookupScan(list, i + 1, volume, count, resultVolume)

\* getVolumeByNameOrCreationToken once the list call has returned
lookupAfterCall(volume, out) ==
    IF CallFailed(out) THEN lookupFail(out.err)
    ELSE IF out.status >= 300 \/ out.status < 200
    THEN lookupFail([kind |-> "api", status |-> out.status, body |-> NoBody])
    ELSE IF ~out.json THEN lookupFail(JsonErr)
    ELSE lookupScan(out.list, 1, volume, 0, ZeroVolumeResult)

\* `if volume.Name == "" && volume.CreationToken == ""`
lacksNameOrToken(volume) == volume.Name = "" \/ volume.CreationToken = ""

lacksNameAndToken(volume) == volume.Name = "" /\ volume.CreationToken = ""

GetVolumeByNameOrCreationToken ==
    /\ op = "lookup" /\ pc = "start"
    /\ IF lacksNameAndToken(request)
       THEN /\ Return(ZeroVolumeResult,
                      LookupErr("Either CreationToken or volume name or both are required", ""))
            /\ UNCHANGED <<sent, baseURL, statusCode, response, callErr, listing>>
       ELSE \E out \in ListOutcomes :
            LET url == <<request.Region, "Volumes">>
                d == lookupAfterCall(request, out)
            IN  /\ baseURL' = url
                /\ sent' = Append(sent, [method |-> "GET", path |-> url,
                                         params |-> NoParams])
                /\ statusCode' = out.status
                /\ response' = [json |-> out.json, text |-> <<>>]
                /\ callErr' = out.err
                /\ listing' = out.list
                /\ Return(d.result, d.err)
    /\ UNCHANGED <<sleeping, build, procs, op, request, callerRequest, Project, params,
                   responseError, responseErrorContent, retries, sleeps,
                   firstResponse, allKind, prevAllKind>>

-----------------------------------------------------------------------------
(* updateVolume                                                            *)

\* json.Unmarshal(response, &apiResponseCodeMessage)
apiResponseCodeMessageOf(body) == [Code |-> body.code, Message |-> body.message]

\* `if (result.Code != 0 && result.Code != 200) || (result.Message != "")`
updateRejectedByCodeOnly(content) == content.Code # 0 /\ content.Code # 200

updateRejected(content) ==
    (content.Code # 0 /\ content.Code # 200) \/ content.Message # ""

\* fmt.Errorf("code: %d, message: %s", result.Code, result.Message)
UpdateErr(content) ==
    [kind |-> "update", code |-> content.Code, message |-> content.Message]

\* the error updateVolume returns once the call has returned
updateAfterCall(out) ==
    IF CallFailed(out) THEN out.err
    ELSE IF apiResponseChecker(out.status, out.body).kind # "nil"
    THEN apiResponseChecker(out.status, out.body)
    ELSE IF ~out.body.json THEN JsonErr
    ELSE IF updateRejected(apiResponseCodeMessageOf(out.body))
    THEN UpdateErr(apiResponseCodeMessageOf(out.body))
    ELSE NoErr

UpdateVolume ==
    /\ op = "update" /\ pc = "start"
    /\ \E out \in CallOutcomes :
        LET p == structsMap(request)
            url == <<request.Region, "Volumes", request.VolumeID>>
        IN  /\ params' = p
            /\ baseURL' = url
            /\ sent' = Append(sent, [method |-> "PUT", path |-> url, params |-> p])
            /\ statusCode' = out.status
            /\ response' = out.body
            /\ callErr' = out.err
            /\ pc' = "done"
            /\ err' = updateAfterCall(out)
    /\ UNCHANGED <<sleeping, build, procs, op, request, callerRequest, Project, responseError,
                   responseErrorContent, retries, result, sleeps, firstResponse,
                   allKind, prevAllKind, listing>>

-----------------------------------------------------------------------------
(* The operations under test and their inputs                              *)

CreateRequests ==
    [Name : {"vol-a"}, Region : {"r1"}, CreationToken : {"", "t1"},
     Network : {<<"net">>}, VolumeID : {""}, SharedVpcProjectNumber : {"", "p9"}]

DeleteRequests ==
    [Name : {"vol-a"}, Region : {"r1"}, CreationToken : {"t1"},
     Network : {<<"net">>}, VolumeID : {"i1"}, SharedVpcProjectNumber : {""}]

UpdateRequests ==
    [Name : {"vol-a"}, Region : {"r1"}, CreationToken : {"t1"},
     Network : {<<"net">>}, VolumeID : {"i1"}, SharedVpcProjectNumber : {""}]

LookupRequests ==
    [Name : {"", "vol-a", "vol-b", "vol-c"}, Region : {"r1"},
     CreationToken : {"", "t1", "t3"},
     Network : {<<>>}, VolumeID : {""}, SharedVpcProjectNumber : {""}]

-----------------------------------------------------------------------------
(* Request.BuildHTTPReq (restapi/request.go)                               *)

\* Go values handed to json.Marshal; text is a sequence of characters, an
\* object maps keys (text) to values, goChan is a value encoding/json rejects
jsonNil == [t |-> "nil"]

jsonBool(b) == [t |-> "bool", v |-> b]

jsonNumber(n) == [t |-> "number", v |-> n]

jsonString(s) == [t |-> "string", v |-> s]

jsonArray(a) == [t |-> "array", v |-> a]

jsonObject(m) == [t |-> "object", v |-> m]

goChan == [t |-> "chan"]

EmptyObject == [k \in {} |-> jsonNil]

DigitChars == <<"0", "1", "2", "3", "4", "5", "6", "7", "8", "9">>

\* byte values of the characters that occur in keys
Ascii ==
    ("A" :> 65) @@ ("a" :> 97) @@ ("b" :> 98) @@ ("e" :> 101) @@ ("m" :> 109)
    @@ ("n" :> 110) @@ ("q" :> 113) @@ ("s" :> 115) @@ ("t" :> 116)

\* the characters encoding/json writes as \u00XX although they are printable
HTMLEscapes ==
    ("<" :> <<"0", "0", "3", "c">>) @@ (">" :> <<"0", "0", "3", "e">>)
    @@ ("&" :> <<"0", "0", "2", "6">>)

RECURSIVE Digits(_)
Digits(n) ==
    IF n < Len(DigitChars)
    THEN <<DigitChars[n + 1]>>
    ELSE Digits(n \div Len(DigitChars)) \o <<DigitChars[(n % Len(DigitChars)) + 1]>>

EscapeOf(c) ==
    IF c \in {"\"", "\\"} THEN <<"\\", c>>
    ELSE IF c \in DOMAIN HTMLEscapes THEN <<"\\", "u">> \o HTMLEscapes[c]
    ELSE <<c>>

RECURSIVE Escaped(_)
Escaped(s) == IF s = <<>> THEN <<>> ELSE EscapeOf(Head(s)) \o Escaped(Tail(s))

Quote(s) == <<"\"">> \o Escaped(s) \o <<"\"">>

RECURSIVE LessBytes(_, _)
LessBytes(a, b) ==
    IF a = <<>> THEN b # <<>>
    ELSE IF b = <<>> THEN FALSE
    ELSE IF Head(a) = Head(b) THEN LessBytes(Tail(a), Tail(b))
    ELSE Ascii[Head(a)] < Ascii[Head(b)]

\* encoding/json writes the keys of a map in sorted order
RECURSIVE SortKeys(_)
SortKeys(S) ==
    IF S = {} THEN <<>>
    ELSE LET k == CHOOSE x \in S : \A y \in S \ {x} : LessBytes(x, y)
         IN  <<k>> \o SortKeys(S \ {k})

RECURSIVE JoinComma(_)
JoinComma(parts) ==
    IF parts = <<>> THEN <<>>
    ELSE IF Len(parts) = 1 THEN parts[1]
    ELSE parts[1] \o <<",">> \o JoinComma(Tail(parts))

RECURSIVE Marshalable(_)
Marshalable(v) ==
    CASE v.t = "chan" -> FALSE
      [] v.t = "array" -> \A i \in 1..Len(v.v) : Marshalable(v.v[i])
      [] v.t = "object" -> \A k \in DOMAIN v.v : Marshalable(v.v[k])
      [] OTHER -> TRUE

RECURSIVE Encode(_)
Encode(v) ==
    CASE v.t = "nil" -> <<"n", "u", "l", "l">>
      [] v.t = "bool" -> IF v.v THEN <<"t", "r", "u", "e">>
                                ELSE <<"f", "a", "l", "s", "e">>
      [] v.t = "number" -> Digits(v.v)
      [] v.t = "string" -> Quote(v.v)
      [] v.t = "array" ->
            <<"[">> \o JoinComma([i \in 1..Len(v.v) |-> Encode(v.v[i])]) \o <<"]">>
      [] v.t = "object" ->
            LET ks == SortKeys(DOMAIN v.v)
            IN  <<"{">>
                \o JoinComma([i \in 1..Len(ks) |->
                                 Quote(ks[i]) \o <<":">> \o Encode(v.v[ks[i]])])
                \o <<"}">>

MarshalErr == [kind |-> "json: unsupported type"]

\* json.Marshal(r.Params)
Marshal(v) ==
    IF Marshalable(v)
    THEN [bytes |-> Encode(v), err |-> NoErr]
    ELSE [bytes |-> <<>>, err |-> MarshalErr]

\* the files ioutil.ReadFile can read, with their content
Files ==
    ("/sa/key.json" :> "keyF") @@ ("/sa/notes.txt" :> "not-a-key")
    @@ ("/sa/unsignable.json" :> "keyV") @@ ("/sa/empty.json" :> "")

ReadErr == [kind |-> "open: no such file or directory"]

\* ioutil.ReadFile(serviceAccount)
ReadFile(path) ==
    IF path \in DOMAIN Files
    THEN [bytes |-> Files[path], err |-> NoErr]
    ELSE [bytes |-> "", err |-> ReadErr]

\* key material google.JWTAccessTokenSourceFromJSON accepts
ParsesAsKey(keyBytes) == keyBytes \in {"keyA", "keyF", "keyU", "keyV"}

\* key material whose token source issues a token
IssuesToken(keyBytes) == keyBytes \in {"keyA", "keyF"}

\* url strings http.NewRequest accepts
ParsesAsURL(url) == url[1] # "%zz"

NilRequest == [nil |-> TRUE]

NilReader == <<"nil">>

BuildErr(text) == [kind |-> text]

carriesBodyUnlessGet(method) == method # "GET"

carriesBody(method) == method # "GET" /\ method # "DELETE"

usesInlineNever(credentials) == FALSE

usesInline(credentials) == credentials # ""

\* (r *Request) BuildHTTPReq(host, serviceAccount, credentials, audience, baseURL)
buildHTTPReq(r, host, serviceAccount, credentials, audience, path) ==
    LET url        == <<host, path>>
        bodyJSON   == IF carriesBody(r.Method) THEN Marshal(r.Params)
                      ELSE [bytes |-> NilReader, err |-> NoErr]
        read       == IF usesInline(credentials)
                      THEN [bytes |-> credentials, err |-> NoErr]
                      ELSE ReadFile(serviceAccount)
        reads      == IF usesInline(credentials) THEN <<>> ELSE <<serviceAccount>>
        failed(e, files) == [req |-> NilRequest, err |-> e, reads |-> files]
    IN  IF bodyJSON.err # NoErr THEN failed(bodyJSON.err, <<>>)
        ELSE IF ~ParsesAsURL(url) THEN failed(BuildErr("parse url"), <<>>)
        ELSE IF read.err # NoErr
             THEN failed(BuildErr("Unable to read service account key file"), reads)
        ELSE IF ~ParsesAsKey(read.bytes)
             THEN failed(BuildErr("Error building JWT access token source"), reads)
        ELSE IF ~IssuesToken(read.bytes)
             THEN failed(BuildErr("Unable to generate JWT token"), reads)
        ELSE [req |-> [Method |-> r.Method,
                       URL    |-> url,
                       Body   |-> bodyJSON.bytes,
                       Header |-> [ContentType   |-> "application/json",
                                   Authorization |->
                                       <<"Bearer ", [key |-> read.bytes,
                                                     aud |-> audience]>>]],
              err |-> NoErr,
              reads |-> reads]

BuildHTTPReq ==
    /\ op = "build"
    /\ pc = "start"
    /\ build' = [build EXCEPT !.out =
                    buildHTTPReq(build.r, build.host, build.serviceAccount,
                                 build.credentials, build.audience, build.baseURL)]
    /\ pc' = "done"
    /\ UNCHANGED <<sleeping, procs, op, request, callerRequest, Project, params, baseURL,
                   statusCode, response, callErr, responseError,
                   responseErrorContent, retries, result, err, sent, sleeps,
                   firstResponse, allKind, prevAllKind, listing>>

NotBuilt == [req |-> NilRequest, err |-> NoErr, reads |-> <<>>]

NoBuild ==
    [r |-> [Method |-> "", Params |-> jsonNil], host |-> "", serviceAccount |-> "",
     credentials |-> "", audience |-> "", baseURL |-> "", out |-> NotBuilt]

\* Params as the operations build them (the keys of structs.Map) and as any
\* caller of the package may
BuildParams ==
    { jsonNil,
      jsonObject(EmptyObject),
      jsonObject((<<"n", "a", "m", "e">> :> jsonString(<<"a", "\"", "<", "\\", "b">>))
                 @@ (<<"q">> :> jsonNumber(1920))
                 @@ (<<"A">> :> jsonBool(TRUE))),
      jsonObject((<<"n", "e", "t">> :> jsonArray(<<jsonString(<<"n", "&", ">">>),
                                                  jsonString(<<>>), jsonNumber(0)>>))
                 @@ (<<"n", "e">> :> jsonObject(<<"s">> :> jsonNil))
                 @@ (<<"b">> :> jsonArray(<<>>))
                 @@ (<<"a">> :> jsonBool(FALSE))),
      jsonObject(<<"s">> :> goChan) }

BuildCalls ==
    [r : [Method : {"GET", "POST", "PUT", "DELETE"}, Params : BuildParams],
     host : {"https://cvs", "%zz"},
     serviceAccount : {"", "/sa/key.json", "/sa/notes.txt", "/sa/unsignable.json",
                       "/sa/empty.json", "/sa/missing.json"},
     credentials : {"", "keyA", "keyU", "{broken"},
     audience : {"aud"},
     baseURL : {"r1/Volumes"},
     out : {NotBuilt}]

-----------------------------------------------------------------------------
(* Operations running concurrently on one Client                           *)

\* the goroutines, each running one lifecycle operation on its own request
Procs == {"A", "B"}

\* Client.Project when the operations start
ClientProject == "p1"

\* the locals of an operation that has just been called with request r
Local(o, r) ==
    [op |-> o, pc |-> "start", request |-> r, callerRequest |-> r,
     params |-> NoParams, baseURL |-> NoURL, retries |-> 0,
     responseError |-> NoErr, responseErrorContent |-> NoContent,
     result |-> IF o = "lookup" THEN ZeroVolumeResult ELSE ZeroCreateVolumeResult,
     err |-> NoErr, sent |-> <<>>]

returned(l, res, e) == [l EXCEPT !.pc = "done", !.result = res, !.err = e]

createApplied(l, d) ==
    IF d.pc = "done"
    THEN returned(l, d.result, d.err)
    ELSE [l EXCEPT !.pc = d.pc, !.retries = d.retries]

deleteApplied(l, d) ==
    IF d.pc = "done"
    THEN returned(l, l.result, d.err)
    ELSE [l EXCEPT !.pc = d.pc, !.retries = d.retries]

\* the call a retry loop makes
CallOf == [spawnLoop |-> "spawnCall", deadlineLoop |-> "deadlineCall"]

\* responseError and responseErrorContent after the first response
firstResponseError(out) ==
    IF CallFailed(out) THEN NoErr ELSE apiResponseChecker(out.status, out.body)

firstResponseErrorContent(out) ==
    IF ~CallFailed(out) /\ DecodesAsEnvelope(out.body)
       /\ apiResponseChecker(out.status, out.body).kind # "nil"
    THEN apiErrorResponseOf(out.body) ELSE NoContent

\* createVolume from one return of CallAPIMethod to the next, on a client
\* whose Project is project
createStep(l, project, out) ==
    IF l.pc = "start" /\ NeedsMint(l.request)
    THEN LET l1 == [l EXCEPT !.sent = Append(@,
                        [method |-> "GET",
                         path |-> <<l.request.Region, "VolumeCreationToken">>,
                         params |-> structsMap(l.request)])]
         IN  IF CallFailed(out) THEN returned(l1, ZeroCreateVolumeResult, out.err)
             ELSE IF apiResponseChecker(out.status, out.body).kind # "nil"
             THEN returned(l1, ZeroCreateVolumeResult,
                           apiResponseChecker(out.status, out.body))
             ELSE IF ~out.body.json
             THEN returned(l1, ZeroCreateVolumeResult, JsonErr)
             ELSE [l1 EXCEPT !.request.CreationToken = out.body.token,
                             !.pc = "minted"]
    ELSE IF l.pc \in {"start", "minted"}
    THEN LET req1 == [l.request EXCEPT !.Network =
                         networkRef(projectIDOn(l.request, project), l.request.Network)]
             p    == structsMap(req1)
             url  == <<req1.Region, "Volumes">>
             l1   == [l EXCEPT !.request = req1, !.params = p, !.baseURL = url,
                               !.sent = Append(@, [method |-> "POST", path |-> url,
                                                   params |-> p]),
                               !.responseError = firstResponseError(out),
                               !.responseErrorContent = firstResponseErrorContent(out)]
         IN  createApplied(l1, createFirst(out))
    ELSE LET re == IF CallFailed(out) THEN l.responseError
                   ELSE loopResponseError(l.responseError, out.status, out.body)
             l1 == [l EXCEPT !.sent = Append(@, [method |-> "POST", path |-> l.baseURL,
                                                 params |-> l.params]),
                             !.responseError = re]
             d  == createLoopAt(CallOf[l.pc], out, l.retries, re)
         IN  IF d.pc # "done" /\ d.retries = 0
             THEN createApplied(l1, createTail(l.responseErrorContent, re, out.body))
             ELSE createApplied(l1, d)

\* deleteVolume from one return of CallAPIMethod to the next
deleteStep(l, project, out) ==
    IF l.pc = "start"
    THEN LET url == <<l.request.Region, "Volumes", l.request.VolumeID>>
             l1  == [l EXCEPT !.baseURL = url,
                              !.sent = Append(@, [method |-> "DELETE", path |-> url,
                                                  params |-> NoParams]),
                              !.responseError = firstResponseError(out),
                              !.responseErrorContent = firstResponseErrorContent(out)]
         IN  deleteApplied(l1, deleteFirst(out))
    ELSE LET re == IF CallFailed(out) THEN l.responseError
                   ELSE loopResponseError(l.responseError, out.status, out.body)
             l1 == [l EXCEPT !.sent = Append(@, [method |-> "DELETE",
                                                 path |-> l.baseURL,
                                                 params |-> NoParams]),
                             !.responseError = re]
             d  == deleteLoop(out, l.retries, re)
         IN  IF d.pc # "done" /\ d.retries = 0
             THEN deleteApplied(l1, deleteTail(l.responseErrorContent, re, out.body))
             ELSE deleteApplied(l1, d)

\* updateVolume
updateStep(l, project, out) ==
    LET p   == structsMap(l.request)
        url == <<l.request.Region, "Volumes", l.request.VolumeID>>
        l1  == [l EXCEPT !.params = p, !.baseURL = url,
                         !.sent = Append(@, [method |-> "PUT", path |-> url,
                                             params |-> p])]
    IN  returned(l1, l.result, updateAfterCall(out))

\* getVolumeByNameOrCreationToken
lookupStep(l, project, out) ==
    IF lacksNameAndToken(l.request)
    THEN returned(l, ZeroVolumeResult,
                  LookupErr("Either CreationToken or volume name or both are required", ""))
    ELSE LET url == <<l.request.Region, "Volumes">>
             d   == lookupAfterCall(l.request, out)
             l1  == [l EXCEPT !.baseURL = url,
                              !.sent = Append(@, [method |-> "GET", path |-> url,
                                                  params |-> NoParams])]
         IN  returned(l1, d.result, d.err)

\* the responses the backend gives to the concurrent operations
ConcCallOutcomes ==
    CallOutcomes \cap
    { [err |-> NoErr, status |-> 200,
       body |-> [json |-> TRUE, code |-> 0, message |-> "", result |-> "v1"]],
      [err |-> NoErr, status |-> 500,
       body |-> [json |-> TRUE, code |-> 500,
                 message |-> spawnJobCreationErrorMessage, result |-> "v1"]],
      [err |-> NoErr, status |-> 500,
       body |-> [json |-> TRUE, code |-> 500,
                 message |-> spawnJobDeletionErrorMessage, result |-> "v1"]],
      [err |-> NoErr, status |-> 500,
       body |-> [json |-> TRUE, code |-> 500,
                 message |-> contextDeadlineExceededErrorMessage, result |-> "v1"]],
      [err |-> NoErr, status |-> 400,
       body |-> [json |-> TRUE, code |-> 404, message |-> "other", result |-> "v1"]],
      [err |-> TransportErr, status |-> 0, body |-> NoBody] }

ConcMintOutcomes ==
    MintOutcomes \cap
    { [err |-> NoErr, status |-> 200, body |-> [json |-> TRUE, token |-> "m1"]],
      [err |-> TransportErr, status |-> 0, body |-> NoBody] }

ConcListOutcomes ==
    ListOutcomes \cap
    { [err |-> NoErr, status |-> 200, json |-> TRUE, list |-> <<>>],
      [err |-> NoErr, status |-> 200, json |-> TRUE,
       list |-> <<[Name |-> "vol-a", CreationToken |-> "t1", VolumeID |-> "i1"]>>],
      [err |-> NoErr, status |-> 500, json |-> TRUE, list |-> <<>>] }

\* Client.Project after a step of an operation: the operations read it
\* (c.GetProjectID()) and none assigns it
projectStored(l) == projectIDOn(l.callerRequest, Project)

projectKept(l) == Project

\* one step of the operation of goroutine p, and the same step of that
\* operation run alone on a client with the initial Project
\* the operation of l, from one return of CallAPIMethod to the next
step(l, project, out) ==
    CASE l.op = "create" -> createStep(l, project, out)
      [] l.op = "delete" -> deleteStep(l, project, out)
      [] l.op = "update" -> updateStep(l, project, out)
      [] l.op = "lookup" -> lookupStep(l, project, out)

ConcStep(p, o, outcomes) ==
    /\ procs[p].run.op = o
    /\ procs[p].run.pc # "done"
    /\ \E out \in outcomes :
          procs' = [procs EXCEPT ![p] = [run   |-> step(@.run, Project, out),
                                         alone |-> step(@.alone, ClientProject, out)]]
    /\ Project' = projectKept(procs[p].run)
    /\ UNCHANGED <<op, pc, request, callerRequest, params, baseURL, statusCode,
                   response, callErr, responseError, responseErrorContent, retries,
                   result, err, sent, sleeps, sleeping, firstResponse, allKind,
                   prevAllKind, listing, build>>

ConcCreateMint ==
    \E p \in Procs :
        /\ procs[p].run.pc = "start" /\ NeedsMint(procs[p].run.request)
        /\ ConcStep(p, "create", ConcMintOutcomes)

ConcCreate ==
    \E p \in Procs :
        /\ ~(procs[p].run.pc = "start" /\ NeedsMint(procs[p].run.request))
        /\ ConcStep(p, "create", ConcCallOutcomes)

ConcDelete ==
    \E p \in Procs :
        /\ procs[p].run.pc = "start" \/ procs[p].run.pc = "deleteLoop"
        /\ ConcStep(p, "delete", ConcCallOutcomes)

ConcUpdate ==
    \E p \in Procs :
        /\ procs[p].run.pc = "start"
        /\ ConcStep(p, "update", ConcCallOutcomes)

ConcLookup ==
    \E p \in Procs :
        /\ procs[p].run.pc = "start"
        /\ ConcStep(p, "lookup", ConcListOutcomes)

NoProcs == [p \in Procs |-> [run |-> Local("none", ZeroVolumeRequest),
                             alone |-> Local("none", ZeroVolumeRequest)]]

\* the calls the goroutines make
ConcCalls ==
    {Local("create", r) : r \in {x \in CreateRequests :
                                    (x.CreationToken = "") = (x.SharedVpcProjectNumber = "")}}
    \cup {Local("delete", r) : r \in DeleteRequests}
    \cup {Local("update", r) : r \in UpdateRequests}
    \cup {Local("lookup", r) : r \in {x \in LookupRequests :
                                        x.Name \in {"", "vol-a"} /\ x.CreationToken \in {"", "t1"}}}

InitConc ==
    /\ procs \in {[p \in Procs |-> [run |-> f[p], alone |-> f[p]]] :
                     f \in [Procs -> ConcCalls]}
    /\ Project = ClientProject
    /\ op = "concurrent"
    /\ pc = "start"
    /\ request = ZeroVolumeRequest
    /\ callerRequest = ZeroVolumeRequest
    /\ params = NoParams
    /\ baseURL = NoURL
    /\ statusCode = 0
    /\ response = NoBody
    /\ callErr = NoErr
    /\ responseError = NoErr
    /\ responseErrorContent = NoContent
    /\ retries = 0
    /\ result = ZeroCreateVolumeResult
    /\ err = NoErr
    /\ sent = <<>>
    /\ sleeps = 0
    /\ sleeping = 0
    /\ firstResponse = [seen |-> FALSE]
    /\ allKind = "none"
    /\ prevAllKind = "none"
    /\ listing = <<>>
    /\ build = NoBuild

NextConc ==
    \/ ConcCreateMint
    \/ ConcCreate
    \/ ConcDelete
    \/ ConcUpdate
    \/ ConcLookup

SpecConc == InitConc /\ [][NextConc]_vars

-----------------------------------------------------------------------------
(* The specifications                                                      *)

Init ==
    /\ op \in {"create", "delete", "lookup", "update", "build"}
    /\ pc = "start"
    /\ request \in (CASE op = "create" -> CreateRequests
                      [] op = "delete" -> DeleteRequests
                      [] op = "lookup" -> LookupRequests
                      [] op = "update" -> UpdateRequests
                      [] op = "build" -> {ZeroVolumeRequest})
    /\ callerRequest = request
    /\ Project = "p1"
    /\ params = NoParams
    /\ baseURL = NoURL
    /\ statusCode = 0
    /\ response = NoBody
    /\ callErr = NoErr
    /\ responseError = NoErr
    /\ responseErrorContent = NoContent
    /\ retries = 0
    /\ result = IF op = "lookup" THEN ZeroVolumeResult ELSE ZeroCreateVolumeResult
    /\ err = NoErr
    /\ sent = <<>>
    /\ sleeps = 0
    /\ sleeping = 0
    /\ firstResponse = [seen |-> FALSE]
    /\ allKind = "none"
    /\ prevAllKind = "none"
    /\ listing = <<>>
    /\ build \in (IF op = "build" THEN BuildCalls ELSE {NoBuild})
    /\ procs = NoProcs

Next ==
    \/ CreateMint
    \/ CreateFirstPost
    \/ CreateSpawnSleep
    \/ CreateSpawnSend
    \/ CreateSpawnRetry
    \/ CreateDeadlineSleep
    \/ CreateDeadlineSend
    \/ CreateDeadlineRetry
    \/ CreateLoopExit
    \/ DeleteFirst
    \/ DeleteSleep
    \/ DeleteSend
    \/ DeleteRetry
    \/ DeleteLoopExit
    \/ GetVolumeByNameOrCreationToken
    \/ UpdateVolume
    \/ BuildHTTPReq

Spec == Init /\ [][Next]_vars

-----------------------------------------------------------------------------
(* Vocabulary of the properties                                            *)

IsAttempt(r) == r.method \in {"POST", "DELETE"}

IsMint(r) == r.method = "GET" /\ r.path = <<callerRequest.Region, "VolumeCreationToken">>

Attempts(s) == SelectSeq(s, IsAttempt)

NumAttempts == Len(Attempts(sent))

NumMints == Len(SelectSeq(sent, IsMint))

TokenOf(p) == IF "creationToken" \in DOMAIN p THEN p["creationToken"] ELSE ""

IsErrorStatus(sc) == sc >= 300 \/ sc < 200

\* the last call of a create or a delete returned a response with an error status
LastIsErrorResponse ==
    /\ op \in {"create", "delete"}
    /\ NumAttempts >= 1
    /\ callErr.kind = "nil"
    /\ IsErrorStatus(statusCode)

TransientLiterals(o) ==
    IF o = "create"
    THEN {spawnJobCreationErrorMessage, contextDeadlineExceededErrorMessage}
    ELSE {spawnJobDeletionErrorMessage}

AllTransient == allKind \in TransientKinds \cup {"mixedTransient"}

-----------------------------------------------------------------------------
(* createVolume: the creation token                                        *)

\* C1: in one createVolume call the token-mint request is issued at most
\* once, only when the caller's request has an empty creation token and
\* before any POST; with a caller-supplied token no mint request is issued;
\* every POST of the call carries the same path and the same parameters, and
\* their creation token is the token the request holds.
C1_TokenFixedAcrossAttempts ==
    op = "create" =>
        /\ NumMints <= 1
        /\ \A i \in 1..Len(sent) : IsMint(sent[i]) =>
              i = 1 /\ callerRequest.CreationToken = ""
        /\ callerRequest.CreationToken # "" => NumMints = 0
        /\ \A i, j \in 1..Len(sent) :
              IsAttempt(sent[i]) /\ IsAttempt(sent[j]) =>
                 /\ sent[i].method = "POST"
                 /\ sent[i].path = sent[j].path
                 /\ sent[i].params = sent[j].params
        /\ \A i \in 1..Len(sent) : IsAttempt(sent[i]) =>
              /\ TokenOf(sent[i].params) = request.CreationToken
              /\ callerRequest.CreationToken # "" =>
                    TokenOf(sent[i].params) = callerRequest.CreationToken

C1_Witness ==
    /\ op = "create"
    /\ Len(sent) >= 4
    /\ IsMint(sent[1])
    /\ TokenOf(sent[4].params) = "m1"

-----------------------------------------------------------------------------
(* The retry budgets                                                       *)

\* C2 as stated: when every attempt is answered with the same transient
\* condition, the operation issues exactly 10 POSTs (create job-spawn
\* exhaustion), 5 POSTs (deadline exceeded), 10 DELETEs (delete job-spawn
\* exhaustion) and then returns a failure.
C2_BudgetAsStated ==
    pc = "done" =>
        /\ (op = "create" /\ allKind = "createExhaustion") =>
              NumAttempts = 10 /\ err.kind # "nil"
        /\ (op = "create" /\ allKind = "deadline") =>
              NumAttempts = 5 /\ err.kind # "nil"
        /\ (op = "delete" /\ allKind = "deleteExhaustion") =>
              NumAttempts = 10 /\ err.kind # "nil"

\* C2 amended: when every attempt is answered with the same transient
\* condition, the operation issues the first request and then the kind's
\* budget of retries, 11 POSTs (create job-spawn exhaustion), 6 POSTs
\* (deadline exceeded), 11 DELETEs (delete job-spawn exhaustion), and then
\* returns a failure.
C2_BudgetPlusFirstAttempt ==
    pc = "done" =>
        /\ (op = "create" /\ allKind = "createExhaustion") =>
              NumAttempts = 11 /\ sleeps = 10 /\ err.kind # "nil"
        /\ (op = "create" /\ allKind = "deadline") =>
              NumAttempts = 6 /\ sleeps = 5 /\ err.kind # "nil"
        /\ (op = "delete" /\ allKind = "deleteExhaustion") =>
              NumAttempts = 11 /\ sleeps = 10 /\ err.kind # "nil"

C2_Witness ==
    /\ pc = "done" /\ op = "create"
    /\ allKind = "createExhaustion"
    /\ NumAttempts = 11
    /\ err.kind = "api"

\* C3: when the first k create attempts (1 <= k <= 9) are answered with the
\* create job-spawn-exhaustion error and attempt k+1 with a body of code 0
\* and empty message that decodes as a create result, createVolume has ended
\* after exactly k+1 POSTs and returns, with no error, the result decoded
\* from that body.
C3_SuccessAfterTransient ==
    ( /\ op = "create"
      /\ prevAllKind = "createExhaustion"
      /\ NumAttempts \in 2..10
      /\ callErr.kind = "nil"
      /\ DecodesAsCreateResult(response)
      /\ response.code = 0 /\ response.message = "" )
    => /\ pc = "done"
       /\ err = NoErr
       /\ result = createVolumeResultOf(response)
       /\ sleeps = NumAttempts - 1

C3_Witness ==
    /\ op = "create" /\ pc = "done"
    /\ prevAllKind = "createExhaustion"
    /\ NumAttempts = 4
    /\ callErr.kind = "nil"
    /\ DecodesAsCreateResult(response)
    /\ response.code = 0 /\ response.message = ""
    /\ result.VolID = "v1" /\ err = NoErr

-----------------------------------------------------------------------------
(* Classification of the responses                                         *)

\* C4: every response of createVolume or deleteVolume that is followed by
\* another attempt has decoded code 500 and a message equal to one of the
\* operation's transient literals; a response with code 500 and any other
\* message is never followed by another request.
C4_OnlyMatchedTransientRetried ==
    [][ (Len(sent') > Len(sent) /\ NumAttempts >= 1) =>
          /\ response.json
          /\ response.code = 500
          /\ response.message \in TransientLiterals(op) ]_vars

\* C5: a response to createVolume or deleteVolume with a status outside the
\* success range and a decoded code other than 0 and 500 ends the operation
\* with a non-nil error.
C5_FatalEndsOperation ==
    (LastIsErrorResponse /\ response.json /\ response.code \notin {0, 500})
    => pc = "done" /\ err.kind # "nil"

\* C6: an error response to createVolume or deleteVolume whose body does not
\* decode as the {code, message} envelope ends the operation with an error
\* whose text is the raw body.
C6_UndecodableFailsWithRawBody ==
    (LastIsErrorResponse /\ ~response.json)
    => pc = "done" /\ err.kind = "fmt" /\ err.text = response.text

\* C7: when createVolume or deleteVolume leaves its retry loop with the
\* budget used up, every attempt having been answered with a transient
\* error, it returns the error made from the last attempt's response.
C7_ExhaustionReturnsLastError ==
    ( /\ pc = "done" /\ op \in {"create", "delete"}
      /\ AllTransient
      /\ retries = 0 /\ sleeps > 0 )
    => /\ err.kind = "api"
       /\ err = apiResponseChecker(statusCode, response)

C7_Witness ==
    /\ pc = "done" /\ op = "create"
    /\ AllTransient
    /\ retries = 0 /\ sleeps = 10
    /\ firstResponse.status = 500 /\ statusCode = 400
    /\ err.kind = "api" /\ err.status = 400

\* C8: a transport or credential error of any call (the token mint, the
\* first request, a retry) ends the operation with that error, and no
\* request and no sleep follows it.
C8_CallErrorsNotRetried ==
    /\ [](callErr.kind # "nil" => pc = "done" /\ err = callErr)
    /\ [][callErr.kind # "nil" => sent' = sent /\ sleeps' = sleeps]_vars

C8_Witness ==
    /\ op = "create" /\ pc = "done"
    /\ callErr = TransportErr
    /\ sleeps = 2 /\ NumAttempts = 3 /\ NumMints = 1

\* C9: a first deleteVolume error response with code 500 and the create
\* job-spawn-exhaustion or the deadline-exceeded literal ends deleteVolume
\* with an error after exactly one DELETE and no sleep; a first createVolume
\* error response with code 500 and the delete job-spawn-exhaustion literal
\* ends createVolume with an error after exactly one POST.
C9_KindsPerOperation ==
    ( /\ op \in {"create", "delete"}
      /\ firstResponse.seen
      /\ IsErrorStatus(firstResponse.status)
      /\ firstResponse.body.json
      /\ firstResponse.body.code = 500
      /\ firstResponse.body.message \in
            (TransientLiterals("create") \cup TransientLiterals("delete"))
               \ TransientLiterals(op) )
    => /\ pc = "done"
       /\ err.kind # "nil"
       /\ NumAttempts = 1
       /\ sleeps = 0

C9_Witness ==
    /\ op = "delete" /\ pc = "done"
    /\ firstResponse.seen
    /\ firstResponse.status = 500
    /\ firstResponse.body.json
    /\ firstResponse.body.code = 500
    /\ firstResponse.body.message = spawnJobCreationErrorMessage
    /\ err.kind = "api" /\ Len(sent) = 1

-----------------------------------------------------------------------------
(* getVolumeByNameOrCreationToken                                          *)

\* the positions of the listed volumes that have the requested name
NameMatches == {i \in 1..Len(listing) : listing[i].Name = request.Name}

\* the list call of a lookup returned a list
Listed ==
    /\ op = "lookup" /\ pc = "done"
    /\ Len(sent) = 1
    /\ callErr.kind = "nil"
    /\ ~IsErrorStatus(statusCode)
    /\ response.json

\* C10: a lookup with a name and no creation token returns the listed volume
\* of that name when exactly one listed volume has it, fails with "more than
\* one volume" when several have it, and fails with "no volume found" when
\* none has it.
C10_LookupByName ==
    (Listed /\ request.CreationToken = "" /\ request.Name # "")
    => /\ Cardinality(NameMatches) = 1 =>
             /\ err = NoErr
             /\ \E i \in NameMatches : result = listing[i]
       /\ Cardinality(NameMatches) > 1 =>
             /\ err = LookupErr("Found more than one volume", request.Name)
             /\ result = ZeroVolumeResult
       /\ Cardinality(NameMatches) = 0 =>
             /\ err = LookupErr("No volume found for", request.Name)
             /\ result = ZeroVolumeResult

C10_Witness ==
    /\ Listed
    /\ request.CreationToken = "" /\ request.Name = "vol-b"
    /\ Len(listing) = 3
    /\ listing[1].Name = "vol-a" /\ listing[2].Name = "vol-b"
    /\ listing[3].Name = "vol-a"
    /\ err = NoErr /\ result = listing[2]

\* the positions of the listed volumes that carry the requested token
TokenCarriers ==
    {i \in 1..Len(listing) : listing[i].CreationToken = request.CreationToken}

\* the first listed volume that carries the requested token
FirstCarrier == listing[CHOOSE i \in TokenCarriers : \A j \in TokenCarriers : i <= j]

\* C11: a lookup with a creation token fails with "does not exist" when no
\* listed volume carries the token, fails with "does not match" when the
\* (first) listed volume carrying the token has a name different from a
\* name the caller supplied, and otherwise returns that volume; with no
\* name given it returns it whatever names the other listed volumes have.
C11_LookupByToken ==
    (Listed /\ request.CreationToken # "")
    => /\ TokenCarriers = {} =>
             /\ err = LookupErr("Given CreationToken does not exist",
                                request.CreationToken)
             /\ result = ZeroVolumeResult
       /\ (TokenCarriers # {} /\ request.Name # ""
              /\ FirstCarrier.Name # request.Name) =>
             /\ err = LookupErr(
                   "Given CreationToken does not match with given volume name",
                   request.Name)
             /\ result = ZeroVolumeResult
       /\ (TokenCarriers # {}
              /\ (request.Name = "" \/ FirstCarrier.Name = request.Name)) =>
             /\ err = NoErr
             /\ result = FirstCarrier

C11_Witness ==
    /\ Listed
    /\ request.CreationToken = "t1" /\ request.Name = ""
    /\ Len(listing) = 3
    /\ listing[1].Name = "vol-a" /\ listing[1].CreationToken = "t2"
    /\ listing[2].Name = "vol-a" /\ listing[2].CreationToken = "t1"
    /\ listing[3].Name = "vol-a" /\ listing[3].CreationToken = "t2"
    /\ err = NoErr /\ result = listing[2]

\* C20: a lookup with both the name and the creation token empty returns an
\* error without any request; every other lookup issues exactly one
\* request, the list request GET <region>/Volumes.
C20_LookupRequests ==
    (op = "lookup" /\ pc = "done")
    => /\ (request.Name = "" /\ request.CreationToken = "") =>
             /\ sent = <<>>
             /\ err = LookupErr(
                   "Either CreationToken or volume name or both are required", "")
             /\ result = ZeroVolumeResult
       /\ ~(request.Name = "" /\ request.CreationToken = "") =>
             sent = << [method |-> "GET", path |-> <<request.Region, "Volumes">>,
                        params |-> NoParams] >>

C20_Witness ==
    /\ op = "lookup" /\ pc = "done"
    /\ request.Name = "" /\ request.CreationToken = ""
    /\ sent = <<>> /\ err.kind = "lookup"

-----------------------------------------------------------------------------
(* updateVolume: failure inside a successful envelope                      *)

\* updateVolume received a response with a successful status and a body
\* that decodes as {code, message}
UpdatedInSuccessEnvelope ==
    /\ op = "update" /\ pc = "done"
    /\ callErr.kind = "nil"
    /\ ~IsErrorStatus(statusCode)
    /\ response.json

\* C12 as stated: for a response with a successful status, updateVolume
\* returns success when the body decodes to {code: 0, message: ""} and an
\* error whenever the decoded code is nonzero or the message is non-empty.
C12_UpdateAsStated ==
    UpdatedInSuccessEnvelope
    => /\ (response.code = 0 /\ response.message = "") => err = NoErr
       /\ (response.code # 0 \/ response.message # "") => err.kind # "nil"

\* C12 amended: for a response with a successful status, updateVolume
\* returns success when the decoded code is 0 or 200 and the message is
\* empty, and an error whenever the decoded code is neither 0 nor 200 or the
\* message is non-empty.
C12_UpdateLogicalFailure ==
    UpdatedInSuccessEnvelope
    => /\ (response.code \in {0, 200} /\ response.message = "") => err = NoErr
       /\ (response.code \notin {0, 200} \/ response.message # "") =>
             err = UpdateErr(apiResponseCodeMessageOf(response))

C12_Witness ==
    /\ UpdatedInSuccessEnvelope
    /\ response.code = 200 /\ response.message = "other"
    /\ err.kind = "update"

-----------------------------------------------------------------------------
(* createVolume: the caller's request and the returned result              *)

\* C13: across a createVolume call the only field of the caller's
\* volumeRequest that changes is the creation token, set once when it was
\* empty; every other field, the network reference included, keeps the value
\* it had at entry.
C13_OnlyTokenChanges ==
    op = "create" =>
        /\ \A f \in DOMAIN request \ {"CreationToken"} : request[f] = callerRequest[f]
        /\ request.CreationToken # callerRequest.CreationToken =>
              callerRequest.CreationToken = ""

\* C19: whenever createVolume returns a nil error, the returned result is
\* the decoding of the body of the last response received, and it is not the
\* zero-value result.
C19_NoEmptySuccess ==
    (op = "create" /\ pc = "done" /\ err = NoErr)
    => /\ NumAttempts >= 1
       /\ callErr.kind = "nil"
       /\ DecodesAsCreateResult(response)
       /\ result = createVolumeResultOf(response)
       /\ result # ZeroCreateVolumeResult

-----------------------------------------------------------------------------
(* The retry loops: sleeps, order and termination                          *)

LoopHeads == {"spawnLoop", "deadlineLoop", "deleteLoop"}

SleepStates == {"spawnSleep", "deadlineSleep", "deleteSleep"}

CallStates == {"spawnCall", "deadlineCall", "deleteCall"}

InLoop(p) == p \in LoopHeads \cup SleepStates \cup CallStates

LoopKind(p) ==
    CASE p \in {"spawnLoop", "spawnSleep", "spawnCall"} -> "createExhaustion"
      [] p \in {"deadlineLoop", "deadlineSleep", "deadlineCall"} -> "deadline"
      [] p \in {"deleteLoop", "deleteSleep", "deleteCall"} -> "deleteExhaustion"

\* the class of the first response of the operation
FirstKind ==
    Classify([err |-> NoErr, status |-> firstResponse.status,
              body |-> firstResponse.body])

\* C16: in one createVolume or deleteVolume call there is no sleep before
\* the first attempt and none after the last, one sleep between any two
\* consecutive attempts, a retry is sent only when that sleep ends and a
\* sleep starts only after the previous response, the sleep takes 30 to 50
\* seconds in the job-spawn-exhaustion loops and 5 to 10 seconds in the
\* deadline-exceeded loop (the loop being the one the first response
\* selected), and every attempt carries the request of the first.
C16_SleepsAndAttempts ==
    /\ [](op \in {"create", "delete"} =>
            /\ NumAttempts = 0 => sleeps = 0 /\ sleeping = 0
            /\ NumAttempts >= 1 =>
                  sleeps = IF pc \in SleepStates THEN NumAttempts
                           ELSE NumAttempts - 1
            /\ sleeping # 0 <=> pc \in SleepStates
            /\ pc \in SleepStates => FirstKind = LoopKind(pc)
            /\ pc \in {"spawnSleep", "deleteSleep"} => sleeping \in 30..50
            /\ pc = "deadlineSleep" => sleeping \in 5..10
            /\ \A i \in 1..Len(sent) : IsAttempt(sent[i]) =>
                  sent[i] = Attempts(sent)[1])
    /\ [][ /\ (Len(sent') > Len(sent) /\ NumAttempts >= 1) =>
                pc \in SleepStates /\ sleeps' = sleeps
           /\ sleeps' > sleeps =>
                pc \in LoopHeads /\ sleeps' = sleeps + 1 /\ sent' = sent ]_vars

C16_Witness ==
    /\ op = "create" /\ pc = "deadlineSleep"
    /\ sleeping = 7
    /\ NumAttempts = 3 /\ sleeps = 3

\* a natural number that every step of an operation decreases
Rank ==
    CASE pc = "done" -> 0
      [] pc \in LoopHeads -> 3 * retries + 1
      [] pc \in SleepStates -> 3 * retries
      [] pc \in CallStates -> 3 * retries - 1
      [] pc = "minted" -> 32
      [] pc = "start" -> 33

\* C18: every step of an operation decreases a natural-number rank, so that
\* createVolume and deleteVolume end after finitely many requests; the retry
\* counter decreases by one on every retried attempt that is followed by
\* another, a call never moves from one retry loop into another, one
\* createVolume call issues at most one token-mint GET and 11 POSTs, and
\* one deleteVolume call at most 11 DELETEs.
C18_BoundedTermination ==
    /\ [](/\ Rank \in 0..33
          /\ retries \in 0..10
          /\ op = "create" =>
                NumMints <= 1 /\ NumAttempts <= 11
                /\ Len(sent) = NumMints + NumAttempts
          /\ op = "delete" => NumAttempts <= 11 /\ Len(sent) = NumAttempts)
    /\ [][ /\ Rank' < Rank
           /\ (InLoop(pc) /\ InLoop(pc')) => LoopKind(pc') = LoopKind(pc)
           /\ (pc \in CallStates /\ pc' \in LoopHeads) => retries' = retries - 1
           /\ (InLoop(pc) /\ ~(pc \in CallStates /\ pc' \in LoopHeads)) =>
                 retries' = retries ]_vars

C18_Witness ==
    /\ op = "create" /\ pc = "done"
    /\ NumMints = 1 /\ NumAttempts = 11
    /\ Len(sent) = 12

-----------------------------------------------------------------------------
(* BuildHTTPReq                                                            *)

\* a reader of the body: the value a JSON text stands for
Drop(s, n) == SubSeq(s, n + 1, Len(s))

Unescape(hex) == CHOOSE c \in DOMAIN HTMLEscapes : HTMLEscapes[c] = hex

DigitValue(c) == (CHOOSE i \in 1..Len(DigitChars) : DigitChars[i] = c) - 1

IsDigit(c) == \E i \in 1..Len(DigitChars) : DigitChars[i] = c

\* the text of a JSON string whose opening quote has been read
RECURSIVE ParseString(_, _)
ParseString(s, acc) ==
    IF Head(s) = "\"" THEN [v |-> acc, rest |-> Tail(s)]
    ELSE IF Head(s) = "\\"
         THEN IF s[2] = "u"
              THEN ParseString(Drop(s, 6), Append(acc, Unescape(SubSeq(s, 3, 6))))
              ELSE ParseString(Drop(s, 2), Append(acc, s[2]))
         ELSE ParseString(Tail(s), Append(acc, Head(s)))

RECURSIVE ParseNumber(_, _)
ParseNumber(s, n) ==
    IF s # <<>> /\ IsDigit(Head(s))
    THEN ParseNumber(Tail(s), n * Len(DigitChars) + DigitValue(Head(s)))
    ELSE [v |-> jsonNumber(n), rest |-> s]

RECURSIVE ParseValue(_), ParseElements(_, _), ParseMembers(_, _)
ParseValue(s) ==
    CASE Head(s) = "n" -> [v |-> jsonNil, rest |-> Drop(s, 4)]
      [] Head(s) = "t" -> [v |-> jsonBool(TRUE), rest |-> Drop(s, 4)]
      [] Head(s) = "f" -> [v |-> jsonBool(FALSE), rest |-> Drop(s, 5)]
      [] Head(s) = "\"" ->
            LET str == ParseString(Tail(s), <<>>)
            IN  [v |-> jsonString(str.v), rest |-> str.rest]
      [] Head(s) = "[" ->
            IF s[2] = "]" THEN [v |-> jsonArray(<<>>), rest |-> Drop(s, 2)]
            ELSE ParseElements(Tail(s), <<>>)
      [] Head(s) = "{" ->
            IF s[2] = "}" THEN [v |-> jsonObject(EmptyObject), rest |-> Drop(s, 2)]
            ELSE ParseMembers(Tail(s), EmptyObject)
      [] OTHER -> ParseNumber(s, 0)

ParseElements(s, acc) ==
    LET e   == ParseValue(s)
        all == Append(acc, e.v)
    IN  IF Head(e.rest) = ","
        THEN ParseElements(Tail(e.rest), all)
        ELSE [v |-> jsonArray(all), rest |-> Tail(e.rest)]

ParseMembers(s, acc) ==
    LET key == ParseString(Tail(s), <<>>)
        val == ParseValue(Tail(key.rest))
        all == (key.v :> val.v) @@ acc
    IN  IF Head(val.rest) = ","
        THEN ParseMembers(Tail(val.rest), all)
        ELSE [v |-> jsonObject(all), rest |-> Tail(val.rest)]

\* json.Unmarshal(body, &v) with v an interface{}
Unmarshal(bytes) == ParseValue(bytes).v

Built == op = "build" /\ pc = "done"

BodylessMethods == {"GET", "DELETE"}

\* the key material BuildHTTPReq's arguments designate
DesignatedKey ==
    IF build.credentials # "" THEN build.credentials
    ELSE IF build.serviceAccount \in DOMAIN Files THEN Files[build.serviceAccount]
    ELSE ""

KeyFileUnreadable ==
    build.credentials = "" /\ build.serviceAccount \notin DOMAIN Files

\* C14: a request built for GET or DELETE has no body even when Params is not
\* nil; a request built for any other method has the JSON serialization of
\* Params as its body, and that body decodes to a value equal to Params;
\* every request built carries Content-Type: application/json and a Bearer
\* Authorization header.
C14_BodyByVerb ==
    (Built /\ build.out.req # NilRequest) =>
        LET req == build.out.req
        IN  /\ build.r.Method \in BodylessMethods => req.Body = NilReader
            /\ build.r.Method \notin BodylessMethods =>
                  /\ req.Body # NilReader
                  /\ req.Body = Marshal(build.r.Params).bytes
                  /\ Unmarshal(req.Body) = build.r.Params
            /\ req.Header.ContentType = "application/json"
            /\ req.Header.Authorization[1] = "Bearer "

\* a POST has been built whose Params hold text that the encoder escapes
C14_Witness ==
    /\ Built
    /\ build.out.req # NilRequest
    /\ build.r.Method = "POST"
    /\ build.r.Params.t = "object"
    /\ <<"n", "a", "m", "e">> \in DOMAIN build.r.Params.v
    /\ Len(build.out.req.Body) > Len(Encode(jsonNil))

\* C15: BuildHTTPReq signs with the inline credentials when they are not
\* empty and reads the key file only when they are empty; when no credential
\* source is given, or the key file cannot be read, or the key material is
\* malformed, or no token is issued, it returns an error and no request; a
\* request is never returned without its Authorization header.
C15_CredentialSource ==
    Built =>
        LET out == build.out
        IN  /\ out.reads # <<>> =>
                  build.credentials = "" /\ out.reads = <<build.serviceAccount>>
            /\ (build.credentials # "" /\ out.req # NilRequest) =>
                  out.req.Header.Authorization[2].key = build.credentials
            /\ (\/ build.credentials = "" /\ build.serviceAccount = ""
                \/ KeyFileUnreadable
                \/ ~ParsesAsKey(DesignatedKey)
                \/ ~IssuesToken(DesignatedKey)) =>
                  out.req = NilRequest /\ out.err # NoErr
            /\ out.req # NilRequest =>
                  /\ out.err = NoErr
                  /\ out.req.Header.Authorization =
                        <<"Bearer ", [key |-> DesignatedKey, aud |-> build.audience]>>
            /\ out.req = NilRequest => out.err # NoErr

\* the inline credentials are empty and the key file does not exist
C15_Witness ==
    /\ Built
    /\ build.credentials = ""
    /\ build.serviceAccount = "/sa/missing.json"
    /\ build.out.reads = <<"/sa/missing.json">>
    /\ build.out.req = NilRequest
    /\ build.out.err # NoErr

-----------------------------------------------------------------------------
(* Concurrent operations                                                   *)

\* the requests of an operation other than the token mint
CallsOf(l) ==
    SelectSeq(l.sent, LAMBDA r : ~(r.method = "GET" /\ l.op = "create"))

\* the request createVolume sends for the caller's request once its network
\* reference is resolved and it carries creation token t
PostFor(l, t) ==
    structsMap([l.callerRequest EXCEPT
                   !.Network = networkRef(projectIDOn(l.callerRequest, ClientProject),
                                          l.callerRequest.Network),
                   !.CreationToken = t])

\* C17: when lifecycle operations run concurrently on one client, each on
\* its own request, then in every interleaving each operation has sent the
\* same requests and has the same result and error as the same operation run
\* alone against the same responses; all the attempts of an operation send
\* the same request, and what a create sends differs from its caller's
\* request only by the creation token its own mint returned; no operation
\* changes the client's project.
C17_NoSharedMutableState ==
    /\ Project = ClientProject
    /\ \A p \in Procs :
        LET l == procs[p].run
            a == procs[p].alone
            calls == CallsOf(l)
        IN  /\ l.sent = a.sent
            /\ l.pc = a.pc
            /\ l.result = a.result
            /\ l.err = a.err
            /\ \A i \in 1..Len(calls) : calls[i] = calls[1]
            /\ (l.op = "create" /\ calls # <<>>) =>
                  /\ calls[1].params = PostFor(l, l.request.CreationToken)
                  /\ l.callerRequest.CreationToken # "" =>
                        l.request.CreationToken = l.callerRequest.CreationToken

\* two creates overlap, both in a retry loop after at least one retry: one
\* minted its token and reads the client's project, the other brought its
\* token and its own network project
C17_Witness ==
    /\ procs["A"].run.pc = "spawnLoop"
    /\ procs["A"].run.callerRequest.CreationToken = ""
    /\ procs["A"].run.retries < spawnJobCreationRetries
    /\ procs["B"].run.pc = "deadlineLoop"
    /\ procs["B"].run.callerRequest.SharedVpcProjectNumber # ""
    /\ procs["B"].run.retries < contextDeadlineRetries

====
